---- MODULE Spec2Model ----
(***************************************************************************)
(* A model of file_concatenator's DirectoryToMarkdown.process():           *)
(* the ignore-filtered directory walk, the rendered directory tree, the    *)
(* encoding fallback and the safe code fence (src/file_concatenator/       *)
(* core.py).                                                               *)
(*                                                                         *)
(* Representation.  A Python str is a sequence of one-character strings    *)
(* when it is a path, a name or a pattern (<<"a", ".", "p", "y">>), and a   *)
(* sequence of code points when it is file content; a file's bytes are a   *)
(* sequence of numbers 0..255.  The written document md_file is the        *)
(* sequence of the items written to it, one record per write group.        *)
(* The box-drawing strings of the tree are written in ASCII here:          *)
(*   "+-- " for the corner connector, "|-- " for the branch connector,     *)
(*   "|   " for the continuation marker and "    " for blank padding.      *)
(***************************************************************************)
EXTENDS Integers, Sequences, FiniteSets, TLC

VARIABLES
    fs,                  \* the directory snapshot under input_dir: relative path (sequence of names) -> node
    obj,                 \* the DirectoryToMarkdown instance: use_markitdown, ignore_patterns, markitdown_available
    argv,                \* the call process(input_dir, output_file) main() is about to make
    pc,                  \* the position of process()
    result,              \* what process() returned: "none" while running, "true", "false"
    now,                 \* the wall clock, in seconds
    all_ignore_patterns, \* process(): all_ignore_patterns
    stats,               \* process(): stats
    md_file,             \* the items written to the output file so far
    current_paths,       \* _process_files(): the path stack
    walk,                \* os.walk(): the directories still to be visited, next first
    opened,              \* whether this run has opened the output file
    prev                 \* the finished previous run of process(), <<>> when there is none

vars == <<fs, obj, argv, pc, result, now, all_ignore_patterns, stats,
          md_file, current_paths, walk, opened, prev>>

----------------------------------------------------------------------------
(* Strings *)

Letters == <<"a","b","c","d","e","f","g","h","i","j","k","l","m",
             "n","o","p","q","r","s","t","u","v","w","x","y","z">>

\* ord(c) for the characters names are made of
Ord(c) ==
    CASE c = "." -> 46
      [] c = "/" -> 47
      [] c = "_" -> 95
      [] OTHER -> 96 + (CHOOSE i \in 1..26 : Letters[i] = c)

\* Python's s < t on str: lexicographic by code point
RECURSIVE StrLess(_, _)
StrLess(s, t) ==
    IF t = <<>> THEN FALSE
    ELSE IF s = <<>> THEN TRUE
    ELSE IF Head(s) = Head(t) THEN StrLess(Tail(s), Tail(t))
    ELSE Ord(Head(s)) < Ord(Head(t))

\* sep.join(parts)
RECURSIVE Join(_, _)
Join(parts, sep) ==
    IF parts = <<>> THEN <<>>
    ELSE IF Len(parts) = 1 THEN parts[1]
    ELSE parts[1] \o sep \o Join(Tail(parts), sep)

\* s.split(ch): the pieces of s between the occurrences of ch (never empty as a list)
RECURSIVE SplitAcc(_, _, _)
SplitAcc(s, ch, cur) ==
    IF s = <<>> THEN <<cur>>
    ELSE IF Head(s) = ch THEN <<cur>> \o SplitAcc(Tail(s), ch, <<>>)
    ELSE SplitAcc(Tail(s), ch, Append(cur, Head(s)))

Split(s, ch) == SplitAcc(s, ch, <<>>)

Range(seq) == {seq[i] : i \in DOMAIN seq}

Reverse(seq) == [i \in 1..Len(seq) |-> seq[Len(seq) + 1 - i]]

Min(a, b) == IF a < b THEN a ELSE b

Max(a, b) == IF a > b THEN a ELSE b

\* list.sort() / sorted() on names: ascending, by insertion into the sorted prefix
RECURSIVE InsertSorted(_, _)
InsertSorted(x, sorted) ==
    IF sorted = <<>> THEN <<x>>
    ELSE IF StrLess(x, Head(sorted)) THEN <<x>> \o sorted
    ELSE <<Head(sorted)>> \o InsertSorted(x, Tail(sorted))

\* the listing left in the order it was reported in
Unsorted(seq) == seq

RECURSIVE Sorted(_)
Sorted(seq) ==
    IF seq = <<>> THEN <<>> ELSE InsertSorted(Head(seq), Sorted(Tail(seq)))

----------------------------------------------------------------------------
(* fnmatch, os.path *)

\* fnmatch.fnmatch(name, pat) on POSIX: the whole name against the pattern,
\* "*" any run of characters ("/" included), "?" any one character
RECURSIVE fnmatch(_, _)
fnmatch(name, pat) ==
    IF pat = <<>> THEN name = <<>>
    ELSE IF Head(pat) = "*"
        THEN fnmatch(name, Tail(pat)) \/ (name # <<>> /\ fnmatch(Tail(name), pat))
    ELSE IF name = <<>> THEN FALSE
    ELSE (Head(pat) = "?" \/ Head(pat) = Head(name)) /\ fnmatch(Tail(name), Tail(pat))

\* os.path.join(a, b) for a relative b
PathJoin(a, b) == IF a = <<>> THEN b ELSE a \o <<"/">> \o b

\* the components of a path, "." and empty components dropped (os.path.normpath)
RECURSIVE DropDots(_)
DropDots(parts) ==
    IF parts = <<>> THEN <<>>
    ELSE (IF Head(parts) = <<>> \/ Head(parts) = <<".">> THEN <<>> ELSE <<Head(parts)>>)
         \o DropDots(Tail(parts))

Comps(path) == DropDots(Split(path, "/"))

IsPrefix(p, s) == Len(p) <= Len(s) /\ SubSeq(s, 1, Len(p)) = p

\* the components of path below the directory start (path is start or lies under it)
RelComps(path, start) == SubSeq(Comps(path), Len(Comps(start)) + 1, Len(Comps(path)))

\* os.path.relpath(path, start)
RelPath(path, start) ==
    IF RelComps(path, start) = <<>> THEN <<".">> ELSE Join(RelComps(path, start), <<"/">>)

\* os.path.basename(path)
BaseName(path) == Split(path, "/")[Len(Split(path, "/"))]

\* os.path.splitext(name)[1]: from the last dot, unless only dots precede it
RECURSIVE LastDot(_, _)
LastDot(name, i) ==
    IF i = 0 THEN 0 ELSE IF name[i] = "." THEN i ELSE LastDot(name, i - 1)

SplitExt(name) ==
    LET d == LastDot(name, Len(name)) IN
    IF d = 0 \/ \A i \in 1..d : name[i] = "." THEN <<>>
    ELSE SubSeq(name, d, Len(name))

----------------------------------------------------------------------------
(* The directory snapshot *)

\* A node of the snapshot.  bytes: a file's content.  readable: whether open()
\* (a file) or os.listdir()/os.scandir() (a directory) succeeds.  conv: what the
\* markitdown delegate does with the file: it raises, or returns text_content.
DirNode(readable) ==
    [kind |-> "dir", readable |-> readable, bytes |-> <<>>,
     conv |-> [raises |-> FALSE, text |-> <<>>]]

FileNode(readable, bytes, conv) ==
    [kind |-> "file", readable |-> readable, bytes |-> bytes, conv |-> conv]

NoFs == [p \in {} |-> DirNode(TRUE)]

\* os.path.exists(input_dir)
Exists(rel) == rel \in DOMAIN fs

\* the node a path names; the snapshot is keyed by the components below input_dir
NodeAt(path) == fs[RelComps(path, argv.input_dir)]

\* os.path.isdir(path)
IsDir(path) ==
    /\ RelComps(path, argv.input_dir) \in DOMAIN fs
    /\ NodeAt(path).kind = "dir"

\* the names of the entries of the directory rel
ChildNames(rel) ==
    {p[Len(p)] : p \in {q \in DOMAIN fs : Len(q) = Len(rel) + 1 /\ SubSeq(q, 1, Len(rel)) = rel}}

RECURSIVE Ascending(_)
Ascending(names) ==
    IF names = {} THEN <<>>
    ELSE LET m == CHOOSE x \in names : \A y \in names \ {x} : StrLess(x, y)
         IN <<m>> \o Ascending(names \ {m})

\* the orders in which the operating system may report the entries of a
\* directory; no rule fixes the order
ListingOrders == {"ascending", "descending"}

\* os.listdir(path) / os.scandir(path) of a readable directory
ListDir(path, order) ==
    LET asc == Ascending(ChildNames(RelComps(path, argv.input_dir)))
    IN IF order = "ascending" THEN asc ELSE Reverse(asc)

----------------------------------------------------------------------------
(* Ignore rules *)

Str_git == <<".", "g", "i", "t">>
Str_pycache == <<"_", "_", "p", "y", "c", "a", "c", "h", "e", "_", "_">>
Str_DS_Store == <<".", "D", "S", "_", "S", "t", "o", "r", "e">>
Pat_pyc == <<"*", ".", "p", "y", "c">>
Pat_pyo == <<"*", ".", "p", "y", "o">>

default_patterns == <<Str_git, Str_pycache, Str_DS_Store, Pat_pyc, Pat_pyo>>

\* the loop "for pattern in default_patterns: if pattern not in all: all.append(pattern)"
RECURSIVE AppendMissing(_, _)
AppendMissing(all, more) ==
    IF more = <<>> THEN all
    ELSE AppendMissing(IF Head(more) \in Range(all) THEN all ELSE Append(all, Head(more)),
                       Tail(more))

\* _load_ignore_patterns() of an instance made without an ignore file
_load_ignore_patterns == AppendMissing(obj.ignore_patterns, default_patterns)

_should_ignore(path, relative_path, ignore_patterns) ==
    \E i \in DOMAIN ignore_patterns :
        \/ fnmatch(path, ignore_patterns[i])
        \/ fnmatch(relative_path, ignore_patterns[i])
        \/ \E part \in Range(Split(path, "/")) : fnmatch(part, ignore_patterns[i])

\* the names of a listing that _should_ignore keeps, as the comprehensions of
\* _process_files compute them
RECURSIVE KeepNotIgnored(_, _, _, _)
KeepNotIgnored(names, root, rel_path, ignore_patterns) ==
    IF names = <<>> THEN <<>>
    ELSE LET n == Head(names)
             ignored == _should_ignore(PathJoin(root, n),
                                       IF rel_path # <<".">> THEN PathJoin(rel_path, n) ELSE n,
                                       ignore_patterns)
         IN (IF ignored THEN <<>> ELSE <<n>>)
            \o KeepNotIgnored(Tail(names), root, rel_path, ignore_patterns)

----------------------------------------------------------------------------
(* The directory tree *)

Corner == "+-- "
Branch == "|-- "
Continuation == "|   "
Padding == "    "

\* "is_last = i == len(entries) - 1", i counted from 1 here
IsLast(i, entries) == i = Len(entries)

TreeLine(prefix, is_last, entry, is_dir) ==
    [prefix |-> prefix, conn |-> IF is_last THEN Corner ELSE Branch,
     name |-> entry, slash |-> is_dir, err |-> FALSE]

\* the single line "(cannot access: ...)" of a directory that cannot be listed
NoAccessLine(prefix) ==
    [prefix |-> prefix, conn |-> Corner, name |-> <<>>, slash |-> FALSE, err |-> TRUE]

RECURSIVE _generate_directory_tree(_, _, _, _, _)
RECURSIVE TreeLoop(_, _, _, _, _, _, _)

\* the iterations i, i+1, ... of the loop "for i, entry in enumerate(entries)"
TreeLoop(entries, i, root_dir, ignore_patterns, prefix, current_rel_path, order) ==
    IF i > Len(entries) THEN <<>>
    ELSE
        LET entry == entries[i]
            path == PathJoin(root_dir, entry)
            rel_entry_path == IF current_rel_path # <<>>
                              THEN PathJoin(current_rel_path, entry) ELSE entry
            is_last == IsLast(i, entries)
            rest == TreeLoop(entries, i + 1, root_dir, ignore_patterns, prefix,
                             current_rel_path, order)
        IN  IF _should_ignore(path, rel_entry_path, ignore_patterns) THEN rest
            ELSE IF IsDir(path)
                THEN <<TreeLine(prefix, is_last, entry, TRUE)>>
                     \o _generate_directory_tree(
                            path, ignore_patterns,
                            Append(prefix, IF is_last THEN Padding ELSE Continuation),
                            rel_entry_path, order)
                     \o rest
            ELSE <<TreeLine(prefix, is_last, entry, FALSE)>> \o rest

\* order: the order in which the directories are listed during this call
_generate_directory_tree(root_dir, ignore_patterns, prefix, current_rel_path, order) ==
    IF ~NodeAt(root_dir).readable THEN <<NoAccessLine(prefix)>>
    ELSE TreeLoop(Sorted(ListDir(root_dir, order)), 1, root_dir, ignore_patterns, prefix,
                  current_rel_path, order)


----------------------------------------------------------------------------
(* Decoding: the codecs open(filepath, "r", encoding=...) uses *)

Decoded(text) == [ok |-> TRUE, text |-> text]

\* UnicodeDecodeError
DecodeError == [ok |-> FALSE, text |-> <<>>]

\* the code point cp followed by what the rest decoded to
Cons(cp, rest) == IF rest.ok THEN Decoded(<<cp>> \o rest.text) ELSE rest

IsCont(b) == b \in 128..191

RECURSIVE DecodeUtf8(_)
DecodeUtf8(b) ==
    IF b = <<>> THEN Decoded(<<>>)
    ELSE IF b[1] < 128 THEN Cons(b[1], DecodeUtf8(Tail(b)))
    ELSE IF /\ b[1] \in 194..223
            /\ Len(b) >= 2 /\ IsCont(b[2])
        THEN Cons((b[1] - 192) * 64 + (b[2] - 128), DecodeUtf8(SubSeq(b, 3, Len(b))))
    ELSE IF /\ b[1] \in 224..239
            /\ Len(b) >= 3 /\ IsCont(b[2]) /\ IsCont(b[3])
            /\ (b[1] = 224 => b[2] >= 160)
            /\ (b[1] = 237 => b[2] <= 159)
        THEN Cons((b[1] - 224) * 4096 + (b[2] - 128) * 64 + (b[3] - 128),
                  DecodeUtf8(SubSeq(b, 4, Len(b))))
    ELSE IF /\ b[1] \in 240..244
            /\ Len(b) >= 4 /\ IsCont(b[2]) /\ IsCont(b[3]) /\ IsCont(b[4])
            /\ (b[1] = 240 => b[2] >= 144)
            /\ (b[1] = 244 => b[2] <= 143)
        THEN Cons((b[1] - 240) * 262144 + (b[2] - 128) * 4096 + (b[3] - 128) * 64
                      + (b[4] - 128),
                  DecodeUtf8(SubSeq(b, 5, Len(b))))
    ELSE DecodeError

BOM == <<239, 187, 191>>

\* utf-8-sig: UTF-8 after one leading byte order mark, when there is one
DecodeUtf8Sig(b) ==
    IF IsPrefix(BOM, b) THEN DecodeUtf8(SubSeq(b, 4, Len(b))) ELSE DecodeUtf8(b)

\* latin-1: every byte is the code point of its value
DecodeLatin1(b) == Decoded(b)

\* cp1252: as latin-1 but for 0x80..0x9F; five of those bytes are undefined
Cp1252High ==
    <<8364, -1, 8218, 402, 8222, 8230, 8224, 8225, 710, 8240, 352, 8249, 338, -1, 381, -1,
      -1, 8216, 8217, 8220, 8221, 8226, 8211, 8212, 732, 8482, 353, 8250, 339, -1, 382, 376>>

RECURSIVE DecodeCp1252(_)
DecodeCp1252(b) ==
    IF b = <<>> THEN Decoded(<<>>)
    ELSE IF b[1] \in 128..159
        THEN IF Cp1252High[b[1] - 127] = -1 THEN DecodeError
             ELSE Cons(Cp1252High[b[1] - 127], DecodeCp1252(Tail(b)))
    ELSE Cons(b[1], DecodeCp1252(Tail(b)))

\* The two-byte codes of GBK over the bytes the snapshots of this model hold
\* (65, 128, 130, 172, 173, 184, 187, 191, 208, 214, 226, 228, 239), as
\* <<lead, trail, code point>>; a pair of those bytes not listed is illegal
GbkPairs ==
    {
      <<130, 65, 20395>>, <<130, 128, 20491>>, <<130, 130, 20496>>, <<130, 172, 20563>>, <<130, 173, 20564>>,
      <<130, 184, 20578>>, <<130, 187, 20582>>, <<130, 191, 20586>>, <<130, 208, 20610>>, <<130, 214, 20618>>,
      <<130, 226, 20631>>, <<130, 228, 20633>>, <<130, 239, 20646>>, <<172, 65, 29689>>, <<172, 128, 29774>>,
      <<172, 130, 29776>>, <<173, 65, 29820>>, <<173, 128, 29896>>, <<173, 130, 29898>>, <<184, 65, 31396>>,
      <<184, 128, 31476>>, <<184, 130, 31478>>, <<184, 172, 33071>>, <<184, 173, 33105>>, <<184, 184, 29238>>,
      <<184, 187, 23500>>, <<184, 191, 32538>>, <<184, 208, 24863>>, <<184, 214, 38050>>, <<184, 226, 31957>>,
      <<184, 228, 38224>>, <<184, 239, 38761>>, <<187, 65, 31812>>, <<187, 128, 31880>>, <<187, 130, 31883>>,
      <<187, 172, 28369>>, <<187, 173, 30011>>, <<187, 184, 26707>>, <<187, 187, 25442>>, <<187, 191, 35938>>,
      <<187, 208, 24653>>, <<187, 214, 24674>>, <<187, 226, 28905>>, <<187, 228, 35763>>, <<187, 239, 20249>>,
      <<191, 65, 32252>>, <<191, 128, 32314>>, <<191, 130, 32317>>, <<191, 172, 26999>>, <<191, 173, 20975>>,
      <<191, 184, 25179>>, <<191, 187, 28821>>, <<191, 191, 38752>>, <<191, 208, 21827>>, <<191, 214, 24656>>,
      <<191, 226, 24211>>, <<191, 228, 22840>>, <<191, 239, 21281>>, <<208, 65, 34853>>, <<208, 128, 34939>>,
      <<208, 130, 34944>>, <<208, 172, 38795>>, <<208, 173, 21327>>, <<208, 184, 25032>>, <<208, 187, 35874>>,
      <<208, 191, 38156>>, <<208, 208, 34892>>, <<208, 214, 20804>>, <<208, 226, 38152>>, <<208, 228, 34966>>,
      <<208, 239, 37207>>, <<214, 65, 35557>>, <<214, 128, 35620>>, <<214, 130, 35623>>, <<214, 172, 33026>>,
      <<214, 173, 27713>>, <<214, 184, 25351>>, <<214, 187, 21482>>, <<214, 191, 25370>>, <<214, 208, 20013>>,
      <<214, 214, 31181>>, <<214, 226, 32920>>, <<214, 228, 21650>>, <<214, 239, 35803>>, <<226, 65, 37351>>,
      <<226, 128, 37413>>, <<226, 130, 37415>>, <<226, 172, 29484>>, <<226, 173, 29496>>, <<226, 184, 39143>>,
      <<226, 187, 39267>>, <<226, 191, 39274>>, <<226, 208, 24209>>, <<226, 214, 24245>>, <<226, 226, 24534>>,
      <<226, 228, 24579>>, <<226, 239, 24601>>, <<228, 65, 37545>>, <<228, 128, 37609>>, <<228, 130, 37611>>,
      <<228, 172, 27950>>, <<228, 173, 27957>>, <<228, 184, 28051>>, <<228, 187, 28000>>, <<228, 191, 28103>>,
      <<228, 208, 28267>>, <<228, 214, 28210>>, <<228, 226, 28347>>, <<228, 228, 28375>>, <<228, 239, 28409>>,
      <<239, 65, 39024>>, <<239, 128, 39141>>, <<239, 130, 39145>>, <<239, 172, 38143>>, <<239, 173, 38147>>,
      <<239, 184, 38164>>, <<239, 187, 38168>>, <<239, 191, 38175>>, <<239, 208, 38212>>, <<239, 214, 38223>>,
      <<239, 226, 38241>>, <<239, 228, 38244>>, <<239, 239, 38258>>
    }

RECURSIVE DecodeDoubleByte(_, _)
DecodeDoubleByte(b, pairs) ==
    IF b = <<>> THEN Decoded(<<>>)
    ELSE IF b[1] < 128 THEN Cons(b[1], DecodeDoubleByte(Tail(b), pairs))
    ELSE IF Len(b) >= 2 /\ \E t \in pairs : t[1] = b[1] /\ t[2] = b[2]
        THEN Cons((CHOOSE t \in pairs : t[1] = b[1] /\ t[2] = b[2])[3],
                  DecodeDoubleByte(SubSeq(b, 3, Len(b)), pairs))
    ELSE DecodeError

DecodeGbk(b) == DecodeDoubleByte(b, GbkPairs)

\* GB2312 has, of those pairs, the ones with both bytes in its 94 x 94 plane
DecodeGb2312(b) ==
    DecodeDoubleByte(b, {t \in GbkPairs : t[1] \in 161..247 /\ t[2] \in 161..254})

Decode(encoding, b) ==
    CASE encoding = "utf-8" -> DecodeUtf8(b)
      [] encoding = "utf-8-sig" -> DecodeUtf8Sig(b)
      [] encoding = "latin-1" -> DecodeLatin1(b)
      [] encoding = "cp1252" -> DecodeCp1252(b)
      [] encoding = "gbk" -> DecodeGbk(b)
      [] encoding = "gb2312" -> DecodeGb2312(b)

\* text mode's universal newlines: "\r\n" and "\r" are read as "\n"
RECURSIVE UniversalNewlines(_)
UniversalNewlines(text) ==
    IF text = <<>> THEN <<>>
    ELSE IF text[1] = 13
        THEN <<10>> \o UniversalNewlines(IF Len(text) >= 2 /\ text[2] = 10
                                         THEN SubSeq(text, 3, Len(text)) ELSE Tail(text))
    ELSE <<text[1]>> \o UniversalNewlines(Tail(text))

encodings == <<"utf-8", "utf-8-sig", "latin-1", "cp1252", "gbk", "gb2312">>

\* the loop "for encoding in encodings" of _read_text_file over an opened file
RECURSIVE ReadLoop(_, _)
ReadLoop(encs, b) ==
    IF encs = <<>> THEN DecodeError
    ELSE IF Decode(Head(encs), b).ok
        THEN Decoded(UniversalNewlines(Decode(Head(encs), b).text))
    ELSE ReadLoop(Tail(encs), b)

\* _read_text_file(filepath): ok = FALSE stands for None.  A file that cannot be
\* opened raises an OSError, which ends the loop at once.
_read_text_file(filepath) ==
    IF ~NodeAt(filepath).readable THEN DecodeError
    ELSE ReadLoop(encodings, NodeAt(filepath).bytes)

----------------------------------------------------------------------------
(* Encoding: what a file holds that was saved as a text in one of the encodings *)

Encoded(bytes) == [ok |-> TRUE, bytes |-> bytes]

\* UnicodeEncodeError
EncodeError == [ok |-> FALSE, bytes |-> <<>>]

\* the bytes of one code point followed by the encoding of the rest
Then(bytes, rest) == IF rest.ok THEN Encoded(bytes \o rest.bytes) ELSE rest

RECURSIVE EncodeUtf8(_)
EncodeUtf8(text) ==
    IF text = <<>> THEN Encoded(<<>>)
    ELSE LET cp == text[1]
             rest == EncodeUtf8(Tail(text))
         IN IF cp < 128 THEN Then(<<cp>>, rest)
            ELSE IF cp < 2048 THEN Then(<<192 + (cp \div 64), 128 + (cp % 64)>>, rest)
            ELSE Then(<<224 + (cp \div 4096), 128 + ((cp \div 64) % 64), 128 + (cp % 64)>>, rest)

EncodeUtf8Sig(text) == Then(BOM, EncodeUtf8(text))

RECURSIVE EncodeLatin1(_)
EncodeLatin1(text) ==
    IF text = <<>> THEN Encoded(<<>>)
    ELSE IF text[1] < 256 THEN Then(<<text[1]>>, EncodeLatin1(Tail(text)))
    ELSE EncodeError

RECURSIVE EncodeCp1252(_)
EncodeCp1252(text) ==
    IF text = <<>> THEN Encoded(<<>>)
    ELSE LET cp == text[1] IN
         IF cp < 128 \/ cp \in 160..255 THEN Then(<<cp>>, EncodeCp1252(Tail(text)))
         ELSE IF \E i \in DOMAIN Cp1252High : Cp1252High[i] = cp
            THEN Then(<<127 + (CHOOSE i \in DOMAIN Cp1252High : Cp1252High[i] = cp)>>,
                      EncodeCp1252(Tail(text)))
         ELSE EncodeError

RECURSIVE EncodeDoubleByte(_, _)
EncodeDoubleByte(text, pairs) ==
    IF text = <<>> THEN Encoded(<<>>)
    ELSE LET cp == text[1] IN
         IF cp < 128 THEN Then(<<cp>>, EncodeDoubleByte(Tail(text), pairs))
         ELSE IF \E t \in pairs : t[3] = cp
            THEN LET t == CHOOSE t \in pairs : t[3] = cp
                 IN Then(<<t[1], t[2]>>, EncodeDoubleByte(Tail(text), pairs))
         ELSE EncodeError

Encode(encoding, text) ==
    CASE encoding = "utf-8" -> EncodeUtf8(text)
      [] encoding = "utf-8-sig" -> EncodeUtf8Sig(text)
      [] encoding = "latin-1" -> EncodeLatin1(text)
      [] encoding = "cp1252" -> EncodeCp1252(text)
      [] encoding = "gbk" -> EncodeDoubleByte(text, GbkPairs)
      [] encoding = "gb2312" ->
            EncodeDoubleByte(text, {t \in GbkPairs : t[1] \in 161..247 /\ t[2] \in 161..254})

----------------------------------------------------------------------------
(* The safe fence *)

Backtick == 96
Newline == 10
FenceMin == 3
FenceCap == 20

\* the characters str.strip() removes
Whitespace ==
    {9, 10, 11, 12, 13, 28, 29, 30, 31, 32, 133, 160, 5760, 8232, 8233, 8239, 8287, 12288}
        \cup (8192..8202)

RECURSIVE LStrip(_)
LStrip(s) == IF s # <<>> /\ Head(s) \in Whitespace THEN LStrip(Tail(s)) ELSE s

Strip(s) == Reverse(LStrip(Reverse(LStrip(s))))

\* "`" * n
Ticks(n) == [i \in 1..n |-> Backtick]

\* content.split("\n")
RECURSIVE SplitLinesAcc(_, _)
SplitLinesAcc(s, cur) ==
    IF s = <<>> THEN <<cur>>
    ELSE IF Head(s) = Newline THEN <<cur>> \o SplitLinesAcc(Tail(s), <<>>)
    ELSE SplitLinesAcc(Tail(s), Append(cur, Head(s)))

SplitLines(content) == SplitLinesAcc(content, <<>>)

\* the longest of the matches of the regular expression (`+): the maximal runs
RECURSIVE LongestRun(_, _, _)
LongestRun(s, cur, best) ==
    IF s = <<>> THEN Max(cur, best)
    ELSE IF Head(s) = Backtick THEN LongestRun(Tail(s), cur + 1, best)
    ELSE LongestRun(Tail(s), 0, Max(cur, best))

_find_longest_backtick_sequence(content) ==
    IF content = <<>> THEN 0 ELSE LongestRun(content, 0, 0)

\* the loop "while any(line.strip() == separator ...) and backtick_count < 20"
RECURSIVE SeparatorLoop(_, _)
SeparatorLoop(lines, backtick_count) ==
    IF /\ \E i \in DOMAIN lines : Strip(lines[i]) = Ticks(backtick_count)
       /\ backtick_count < FenceCap
    THEN SeparatorLoop(lines, backtick_count + 1)
    ELSE backtick_count

\* the fence as long as the longest run, not one longer
SeparatorOfRunLength(content) ==
    Ticks(SeparatorLoop(SplitLines(content),
                        Max(FenceMin, _find_longest_backtick_sequence(content))))

_get_safe_separator(content) ==
    LET max_backticks == _find_longest_backtick_sequence(content)
        backtick_count == Max(FenceMin, max_backticks + 1)
    IN Ticks(SeparatorLoop(SplitLines(content), backtick_count))

UpperLetters == <<"A","B","C","D","E","F","G","H","I","J","K","L","M",
                  "N","O","P","Q","R","S","T","U","V","W","X","Y","Z">>

\* str.lower()
Lower(s) ==
    [i \in 1..Len(s) |->
        IF \E k \in 1..26 : UpperLetters[k] = s[i]
        THEN Letters[CHOOSE k \in 1..26 : UpperLetters[k] = s[i]]
        ELSE s[i]]

\* ext_map.get(os.path.splitext(filename)[1].lower(), "")
_get_language_from_extension(filename) ==
    LET ext == Lower(SplitExt(filename)) IN
    CASE ext = <<".", "p", "y">> -> "python"
      [] ext = <<".", "m", "d">> -> "markdown"
      [] ext = <<".", "t", "x", "t">> -> "text"
      [] ext = <<".", "j", "s">> -> "javascript"
      [] ext = <<".", "h", "t", "m", "l">> -> "html"
      [] ext = <<".", "c", "s", "s">> -> "css"
      [] ext = <<".", "j", "s", "o", "n">> -> "json"
      [] ext = <<".", "x", "m", "l">> -> "xml"
      [] ext = <<".", "y", "a", "m", "l">> -> "yaml"
      [] ext = <<".", "y", "m", "l">> -> "yaml"
      [] ext = <<".", "s", "h">> -> "bash"
      [] ext = <<".", "j", "a", "v", "a">> -> "java"
      [] ext = <<".", "c">> -> "c"
      [] ext = <<".", "c", "p", "p">> -> "cpp"
      [] ext = <<".", "s", "q", "l">> -> "sql"
      [] OTHER -> ""

\* the opening fence line, the content, a line break when the content does not
\* end with one, and the closing fence line
FenceItem(separator, language, content) ==
    [t |-> "fence",
     opening |-> [ticks |-> separator, tag |-> language],
     body |-> content,
     newline_added |-> (content = <<>> \/ content[Len(content)] # Newline),
     closing |-> separator]

_write_text_content(content, filename) ==
    LET language == _get_language_from_extension(filename)
        separator == _get_safe_separator(content)
    IN <<FenceItem(separator, language, content)>>

----------------------------------------------------------------------------
(* One file *)

convert_extensions ==
    {<<".", "p", "d", "f">>, <<".", "d", "o", "c">>, <<".", "d", "o", "c", "x">>,
     <<".", "p", "p", "t">>, <<".", "p", "p", "t", "x">>, <<".", "x", "l", "s">>,
     <<".", "x", "l", "s", "x">>, <<".", "o", "d", "t">>, <<".", "o", "d", "s">>,
     <<".", "o", "d", "p">>, <<".", "r", "t", "f">>, <<".", "e", "p", "u", "b">>,
     <<".", "m", "o", "b", "i">>, <<".", "a", "z", "w", "3">>, <<".", "j", "p", "g">>,
     <<".", "j", "p", "e", "g">>, <<".", "p", "n", "g">>, <<".", "g", "i", "f">>,
     <<".", "b", "m", "p">>, <<".", "t", "i", "f", "f">>, <<".", "t", "i", "f">>,
     <<".", "s", "v", "g">>, <<".", "w", "e", "b", "p">>, <<".", "i", "c", "o">>,
     <<".", "h", "e", "i", "c">>, <<".", "h", "e", "i", "f">>}

_should_convert_to_markdown(ext) == ext \in convert_extensions

\* an inline note "*(...)*" written in place of a fence
Note(kind) == [t |-> "note", kind |-> kind]

\* _convert_with_markitdown: the items written and the stats after it
_convert_with_markitdown(filepath, st) ==
    LET conv == NodeAt(filepath).conv IN
    IF conv.raises
        THEN [items |-> <<Note("conversion raised")>>,
              stats |-> [st EXCEPT !.failed_files = @ + 1]]
    ELSE IF conv.text # <<>>
        THEN [items |-> <<Note("converted by markitdown"),
                          FenceItem(_get_safe_separator(conv.text), "markdown", conv.text)>>,
              stats |-> st]
    ELSE [items |-> <<Note("conversion returned nothing")>>,
          stats |-> [st EXCEPT !.failed_files = @ + 1]]

\* _process_file_content: the items written and the stats after it
_process_file_content(filepath, filename, st) ==
    LET ext == Lower(SplitExt(filename))
        should_convert == _should_convert_to_markdown(ext) /\ obj.markitdown_available
        content == _read_text_file(filepath)
    IN  IF should_convert
            THEN _convert_with_markitdown(filepath, [st EXCEPT !.converted_files = @ + 1])
        ELSE IF content.ok
            THEN [items |-> _write_text_content(content.text, filename),
                  stats |-> [st EXCEPT !.text_files = @ + 1]]
        ELSE [items |-> <<Note(IF obj.markitdown_available /\ _should_convert_to_markdown(ext)
                               THEN "binary, markitdown conversion failed"
                               ELSE "binary, cannot be displayed")>>,
              stats |-> [st EXCEPT !.failed_files = @ + 1]]

HeadingCap == 6

\* _process_file: the heading, the path and size lines (the icon and the type
\* description, two fixed tables, are left out), the content and the rule
_process_file(root, filename, input_dir, depth, st) ==
    LET filepath == PathJoin(root, filename)
        rel_file_path == RelPath(filepath, input_dir)
        file_heading_level == Min(depth + 2, HeadingCap)
        done == _process_file_content(filepath, filename,
                                      [st EXCEPT !.total_files = @ + 1])
    IN  [items |-> <<[t |-> "file heading", level |-> file_heading_level, name |-> filename],
                     [t |-> "file meta", path |-> rel_file_path,
                      size |-> Len(NodeAt(filepath).bytes)]>>
                   \o done.items \o <<[t |-> "rule"]>>,
         stats |-> done.stats]


----------------------------------------------------------------------------
(* process() *)

_init_stats ==
    [total_dirs |-> 0, total_files |-> 0, text_files |-> 0, converted_files |-> 0,
     ignored_paths |-> 0, failed_files |-> 0]

\* where output_file lies in the snapshot, when it lies under input_dir (both are
\* relative to the working directory)
OutputInTree == IsPrefix(Comps(argv.input_dir), Comps(argv.output_file))

OutputRel == RelComps(argv.output_file, argv.input_dir)

ParentOf(rel) == SubSeq(rel, 1, Len(rel) - 1)

\* whether open(output_file, "w") succeeds: the file's directory must exist and the
\* name must not be a directory's; the working directory itself is writable
CanOpenOutput ==
    OutputInTree =>
        /\ OutputRel # <<>>
        /\ ParentOf(OutputRel) \in DOMAIN fs
        /\ fs[ParentOf(OutputRel)].kind = "dir"
        /\ (OutputRel \in DOMAIN fs => fs[OutputRel].kind = "file")

\* the snapshot once open(output_file, "w") has created or truncated the file; what
\* the run writes stays in its buffer until the file is closed
WithOutputFile ==
    IF ~OutputInTree THEN fs
    ELSE [p \in DOMAIN fs \cup {OutputRel} |->
            IF p = OutputRel
            THEN FileNode(TRUE, <<>>, [raises |-> FALSE, text |-> <<>>])
            ELSE fs[p]]

\* process() from its call to the opening of the output file
Start ==
    /\ pc = "ready"
    /\ IF ~Exists(<<>>)
       THEN /\ pc' = "done"
            /\ result' = "false"
            /\ UNCHANGED <<fs, all_ignore_patterns, stats, opened>>
       ELSE /\ all_ignore_patterns' = Append(_load_ignore_patterns, argv.output_file)
            /\ stats' = _init_stats
            /\ IF CanOpenOutput
               THEN /\ fs' = WithOutputFile
                    /\ opened' = TRUE
                    /\ pc' = "header"
                    /\ result' = "none"
               ELSE /\ pc' = "done"
                    /\ result' = "false"
                    /\ UNCHANGED <<fs, opened>>
    /\ UNCHANGED <<obj, argv, now, md_file, current_paths, walk, prev>>

\* _write_header: the title and the generation time, read from the clock
_write_header ==
    /\ pc = "header"
    /\ md_file' = Append(md_file,
           [t |-> "header",
            dir_name |-> IF BaseName(argv.input_dir) # <<>>
                         THEN BaseName(argv.input_dir) ELSE argv.input_dir,
            time |-> now])
    /\ pc' = "tree"
    /\ UNCHANGED <<fs, obj, argv, result, now, all_ignore_patterns, stats,
                   current_paths, walk, opened, prev>>

\* _write_directory_tree, and the first lines of _process_files
_write_directory_tree ==
    /\ pc = "tree"
    /\ \E order \in ListingOrders :
        md_file' = Append(md_file,
           [t |-> "tree",
            lines |-> _generate_directory_tree(argv.input_dir, all_ignore_patterns,
                                               <<>>, <<>>, order)])
    /\ current_paths' = <<>>
    /\ walk' = <<argv.input_dir>>
    /\ pc' = "walk"
    /\ UNCHANGED <<fs, obj, argv, result, now, all_ignore_patterns, stats,
                   opened, prev>>

\* os.walk(): a directory that cannot be scanned is passed over without a word
RECURSIVE NextYield(_)
NextYield(pending) ==
    IF pending = <<>> THEN <<>>
    ELSE IF NodeAt(Head(pending)).readable THEN pending
    ELSE NextYield(Tail(pending))

RECURSIVE OfKind(_, _, _)
OfKind(names, root, kind) ==
    IF names = <<>> THEN <<>>
    ELSE (IF NodeAt(PathJoin(root, Head(names))).kind = kind THEN <<Head(names)>> ELSE <<>>)
         \o OfKind(Tail(names), root, kind)

\* "while current_paths and len(current_paths) >= depth + 1: current_paths.pop()"
RECURSIVE PopPaths(_, _)
PopPaths(paths, depth) ==
    IF paths # <<>> /\ Len(paths) >= depth + 1
    THEN PopPaths(SubSeq(paths, 1, Len(paths) - 1), depth)
    ELSE paths

\* "for filename in files: self._process_file(...)"
RECURSIVE ProcessAll(_, _, _, _, _)
ProcessAll(files, root, input_dir, depth, st) ==
    IF files = <<>> THEN [items |-> <<>>, stats |-> st]
    ELSE LET one == _process_file(root, Head(files), input_dir, depth, st)
             more == ProcessAll(Tail(files), root, input_dir, depth, one.stats)
         IN [items |-> one.items \o more.items, stats |-> more.stats]

\* "depth = 0 if rel_path == '.' else len(rel_path.split(os.sep))"
DepthOf(rel_path) == IF rel_path = <<".">> THEN 0 ELSE Len(Split(rel_path, "/"))

\* the heading level left to grow with the depth
UncappedHeadingLevel(depth) == depth + 1

DirHeadingLevel(depth) == Min(depth + 1, HeadingCap)

\* the heading of a directory; of is the directory it was written for, which is
\* not part of the written text
DirHeading(depth, paths, rel_path) ==
    [t |-> "dir heading", level |-> DirHeadingLevel(depth),
     text |-> Join(paths, <<" ", "/", " ">>), of |-> rel_path]

\* one turn of the loop "for root, dirs, files in os.walk(input_dir)"
_process_files ==
    /\ pc = "walk"
    /\ NextYield(walk) # <<>>
    /\ \E order \in ListingOrders :
       LET root == Head(NextYield(walk))
           input_dir == argv.input_dir
           rel_path == RelPath(root, input_dir)
           scanned == ListDir(root, order)
           dirs0 == OfKind(scanned, root, "dir")
           files0 == OfKind(scanned, root, "file")
           kept_dirs == KeepNotIgnored(dirs0, root, rel_path, all_ignore_patterns)
           dirs == Sorted(kept_dirs)
           files_sorted == Sorted(files0)
           depth == DepthOf(rel_path)
           popped == PopPaths(current_paths, depth)
           dir_name == IF BaseName(root) # <<>> THEN BaseName(root) ELSE root
           paths == IF rel_path # <<".">> THEN Append(popped, dir_name) ELSE popped
           st1 == [stats EXCEPT !.ignored_paths = @ + Len(dirs0) - Len(kept_dirs)]
           files == KeepNotIgnored(files_sorted, root, rel_path, all_ignore_patterns)
           st2 == [st1 EXCEPT !.total_dirs = @ + 1,
                              !.ignored_paths = @ + Len(files_sorted) - Len(files)]
           done == ProcessAll(files, root, input_dir, depth, st2)
       IN  /\ current_paths' = paths
           /\ walk' = [i \in 1..Len(dirs) |-> PathJoin(root, dirs[i])]
                      \o Tail(NextYield(walk))
           /\ IF _should_ignore(root, rel_path, all_ignore_patterns)
              THEN /\ stats' = [st1 EXCEPT !.ignored_paths = @ + 1]
                   /\ UNCHANGED md_file
              ELSE /\ stats' = done.stats
                   /\ md_file' = md_file
                        \o (IF rel_path # <<".">>
                            THEN <<DirHeading(depth, paths, rel_path)>> ELSE <<>>)
                        \o done.items
    /\ UNCHANGED <<fs, obj, argv, pc, result, now, all_ignore_patterns,
                   opened, prev>>

\* the end of the walk, _write_statistics, and "return True"
_write_statistics ==
    /\ pc = "walk"
    /\ NextYield(walk) = <<>>
    /\ md_file' = Append(md_file,
           [t |-> "statistics", total_dirs |-> stats.total_dirs,
            total_files |-> stats.total_files])
    /\ walk' = <<>>
    /\ pc' = "done"
    /\ result' = "true"
    /\ UNCHANGED <<fs, obj, argv, now, all_ignore_patterns, stats,
                   current_paths, opened, prev>>

\* a write to the output file raises (the disk is full, say): "except Exception"
\* of process() reports it and returns False
WriteFails ==
    /\ pc \in {"header", "tree", "walk"}
    /\ pc' = "done"
    /\ result' = "false"
    /\ UNCHANGED <<fs, obj, argv, now, all_ignore_patterns, stats, md_file,
                   current_paths, walk, opened, prev>>

MaxClock == 1

\* main() is run a second time, with the same arguments, on what a first run that
\* succeeded left, in the same second or later
Rerun ==
    /\ pc = "done"
    /\ result = "true"
    /\ now' \in now..MaxClock
    /\ prev = <<>>
    /\ prev' = <<[result |-> result, md_file |-> md_file, stats |-> stats,
                  opened |-> opened]>>
    /\ pc' = "ready"
    /\ result' = "none"
    /\ md_file' = <<>>
    /\ stats' = _init_stats
    /\ current_paths' = <<>>
    /\ walk' = <<>>
    /\ opened' = FALSE
    /\ all_ignore_patterns' = <<>>
    /\ UNCHANGED <<fs, obj, argv>>

Next ==
    \/ Start
    \/ _write_header
    \/ _write_directory_tree
    \/ _process_files
    \/ _write_statistics
    \/ WriteFails
    \/ Rerun

\* the state main() leaves after "processor = DirectoryToMarkdown(...)", for a
\* snapshot, an instance and a call drawn from the given sets
InitFrom(snapshots, instances, calls) ==
    /\ fs \in snapshots
    /\ obj \in instances
    /\ argv \in calls
    /\ pc = "ready"
    /\ result = "none"
    /\ now = 0
    /\ all_ignore_patterns = <<>>
    /\ stats = _init_stats
    /\ md_file = <<>>
    /\ current_paths = <<>>
    /\ walk = <<>>
    /\ opened = FALSE
    /\ prev = <<>>


----------------------------------------------------------------------------
(* The snapshots, instances and calls the specifications draw from *)

RootOnly == [p \in {<<>>} |-> DirNode(TRUE)]

AddEntry(f, p, node) == [q \in DOMAIN f \cup {p} |-> IF q = p THEN node ELSE f[q]]

\* the snapshots with one entry more than f: one of entries (<<name, node>> pairs)
\* put into one of the directories of f
OneMore(f, entries) ==
    {AddEntry(f, Append(c[1], c[2][1]), c[2][2]) :
        c \in {x \in {d \in DOMAIN f : f[d].kind = "dir"} \X entries :
                  Append(x[1], x[2][1]) \notin DOMAIN f}}

RECURSIVE Grown(_, _, _)
Grown(snaps, entries, n) ==
    IF n = 0 THEN snaps
    ELSE Grown(snaps \cup UNION {OneMore(f, entries) : f \in snaps}, entries, n - 1)

\* no directory at all, or a root directory holding up to n entries at any depth
Snapshots(entries, n) == {NoFs} \cup Grown({RootOnly}, entries, n)

NoConv == [raises |-> FALSE, text |-> <<>>]

Name_a == <<"a">>
Name_b == <<"b">>
Dir_p == <<"p">>
Dir_dot == <<".">>
File_o_md == <<"o", ".", "m", "d">>
File_p_o_md == <<"p", "/", "o", ".", "m", "d">>
File_dot_p_o_md == <<".", "/", "p", "/", "o", ".", "m", "d">>
Pat_dot_star == <<".", "*">>

\* a file holding "x"
TextFile == FileNode(TRUE, <<120>>, NoConv)

MaxEntries == 3

WalkEntries == {Name_a, Name_b} \X {DirNode(TRUE), TextFile}

WalkInstances ==
    {[use_markitdown |-> FALSE, markitdown_available |-> FALSE, ignore_patterns |-> pats] :
        pats \in {<<>>, <<Name_b>>, <<Pat_dot_star>>}}

WalkCalls ==
    {[input_dir |-> Dir_p, output_file |-> File_o_md],
     [input_dir |-> Dir_p, output_file |-> File_p_o_md],
     [input_dir |-> Dir_p, output_file |-> File_dot_p_o_md],
     [input_dir |-> Dir_dot, output_file |-> File_o_md]}

Init == InitFrom(Snapshots(WalkEntries, MaxEntries), WalkInstances, WalkCalls)

Spec == Init /\ [][Next]_vars


----------------------------------------------------------------------------
(* Deep trees: a chain of directories a/a/a/..., a file b in some of them *)

MaxDeepEntries == 7

DeepEntries == {<<Name_a, DirNode(TRUE)>>, <<Name_b, TextFile>>}

PlainInstance ==
    [use_markitdown |-> FALSE, markitdown_available |-> FALSE, ignore_patterns |-> <<>>]

OutsideCall == [input_dir |-> Dir_p, output_file |-> File_o_md]

InitDeep == InitFrom(Snapshots(DeepEntries, MaxDeepEntries), {PlainInstance}, {OutsideCall})

SpecDeep == InitDeep /\ [][Next]_vars

----------------------------------------------------------------------------
(* File contents made of backticks, line breaks, spaces and a letter *)

MaxLen == 4
MaxTicks == 21

RECURSIVE SeqsUpTo(_, _)
SeqsUpTo(alphabet, n) ==
    IF n = 0 THEN {<<>>}
    ELSE LET shorter == SeqsUpTo(alphabet, n - 1)
         IN shorter \cup {Append(x, c) : x \in shorter, c \in alphabet}

\* every short content, and every two lines of backticks of up to MaxTicks each
FenceContents ==
    SeqsUpTo({Backtick, Newline, 32, 120}, MaxLen)
        \cup {Ticks(n) \o <<Newline>> \o Ticks(m) : n \in 0..MaxTicks, m \in 0..MaxTicks}

InitFence ==
    InitFrom({NoFs} \cup {AddEntry(RootOnly, <<Name_a>>, FileNode(TRUE, c, NoConv)) :
                             c \in FenceContents},
             {PlainInstance}, {OutsideCall})

SpecFence == InitFence /\ [][Next]_vars


----------------------------------------------------------------------------
(* Files saved in each of the six encodings: texts of "A", the euro sign and the
   character U+4E2D *)

MaxText == 2

Texts == SeqsUpTo({65, 8364, 20013}, MaxText)

\* what the file holds for each text and each encoding that can encode it
EncodedTexts ==
    {Encode(e, T).bytes : <<e, T>> \in {x \in Range(encodings) \X Texts : Encode(x[1], x[2]).ok}}

InitEnc ==
    InitFrom({NoFs} \cup {AddEntry(RootOnly, <<Name_a>>, FileNode(TRUE, c, NoConv)) :
                             c \in EncodedTexts},
             {PlainInstance}, {OutsideCall})

SpecEnc == InitEnc /\ [][Next]_vars

----------------------------------------------------------------------------
(* Entries that fail: directories that cannot be listed, files that cannot be read,
   images the delegate converts, cannot convert or converts to nothing; with and
   without the delegate *)

Name_i_png == <<"i", ".", "p", "n", "g">>
File_p_b_o_md == <<"p", "/", "b", "/", "o", ".", "m", "d">>

\* the first bytes of a PNG file
PngBytes == <<137, 80>>

MaxFailEntries == 2

FailEntries ==
    ({Name_a} \X {DirNode(TRUE), DirNode(FALSE)})
        \cup ({Name_b} \X {TextFile, FileNode(FALSE, <<120>>, NoConv)})
        \cup ({Name_i_png} \X {FileNode(TRUE, PngBytes, [raises |-> FALSE, text |-> <<120>>]),
                               FileNode(TRUE, PngBytes, [raises |-> TRUE, text |-> <<>>]),
                               FileNode(TRUE, PngBytes, NoConv),
                               FileNode(FALSE, PngBytes, NoConv)})

\* the delegate asked for and loaded, asked for and missing, and not asked for
FailInstances ==
    {[use_markitdown |-> TRUE, markitdown_available |-> TRUE, ignore_patterns |-> <<>>],
     [use_markitdown |-> TRUE, markitdown_available |-> FALSE, ignore_patterns |-> <<>>],
     PlainInstance}

\* the output beside the directory, and in a directory b of it that may not exist
FailCalls == {OutsideCall, [input_dir |-> Dir_p, output_file |-> File_p_b_o_md]}

InitFail == InitFrom(Snapshots(FailEntries, MaxFailEntries), FailInstances, FailCalls)

SpecFail == InitFail /\ [][Next]_vars

----------------------------------------------------------------------------
(* What the claims read from the document *)

Finished == pc = "done" /\ result = "true"

Fences == {i \in DOMAIN md_file : md_file[i].t = "fence"}

DirHeadings == {i \in DOMAIN md_file : md_file[i].t = "dir heading"}

\* the file sections: the index of each "file meta" item; its heading is the item
\* before it, its content the item or items after it
FileSections == {i \in DOMAIN md_file : md_file[i].t = "file meta"}

\* s holds n backticks in a row somewhere
HasRun(s, n) == \E i \in 1..(Len(s) - n + 1) : \A k \in 0..(n - 1) : s[i + k] = Backtick

\* s[i..j] is a whole line of s
IsLine(s, i, j) ==
    /\ i \in 1..(Len(s) + 1) /\ j \in (i - 1)..Len(s)
    /\ (i = 1 \/ s[i - 1] = Newline)
    /\ (j = Len(s) \/ s[j + 1] = Newline)
    /\ \A k \in i..j : s[k] # Newline

\* some line of s is exactly the string d
HasLine(s, d) ==
    \E i \in 1..(Len(s) + 1) : IsLine(s, i, i + Len(d) - 1) /\ SubSeq(s, i, i + Len(d) - 1) = d

----------------------------------------------------------------------------
(* C1 *)

\* C1. Fence safety: the delimiter of every fenced block is a run of backticks, at
\* least 3 long and longer than every run of backticks in the content; no line of
\* the content equals it; and the closing fence is the same string as the opening.
C1_FenceSafety ==
    \A i \in Fences :
        LET f == md_file[i]
            d == f.opening.ticks
        IN  /\ \A k \in DOMAIN d : d[k] = Backtick
            /\ Len(d) >= 3
            /\ ~HasRun(f.body, Len(d))
            /\ ~HasLine(f.body, d)
            /\ f.closing = d

\* a block whose content has a line of exactly three backticks, fenced with four
C1_Witness ==
    \E i \in Fences :
        /\ HasLine(md_file[i].body, <<Backtick, Backtick, Backtick>>)
        /\ md_file[i].opening.ticks = <<Backtick, Backtick, Backtick, Backtick>>
        /\ md_file[i].closing = md_file[i].opening.ticks

----------------------------------------------------------------------------
(* C8 *)

\* the level a heading written k levels below the walk root must have, k + extra
\* capped at 6
Saturated(k, extra) == IF k + extra <= 6 THEN k + extra ELSE 6

\* C8. Heading saturation: a directory k levels below the walk root is headed at
\* level min(k + 1, 6), a file in it at level min(k + 2, 6), the walk root has no
\* heading, and every heading level is between 1 and 6.
C8_HeadingSaturation ==
    /\ \A i \in DirHeadings :
        /\ md_file[i].of # <<".">>
        /\ md_file[i].level = Saturated(Len(Comps(md_file[i].of)), 1)
        /\ md_file[i].level \in 1..6
    /\ \A i \in FileSections :
        /\ md_file[i - 1].t = "file heading"
        /\ md_file[i - 1].level = Saturated(Len(Comps(md_file[i].path)) - 1, 2)
        /\ md_file[i - 1].level \in 1..6

\* a directory six levels down headed at level 6, and a file five levels down
\* headed at level 6
C8_Witness ==
    /\ \E i \in DirHeadings : Len(Comps(md_file[i].of)) = 6 /\ md_file[i].level = 6
    /\ \E i \in FileSections :
        Len(Comps(md_file[i].path)) = 6 /\ md_file[i - 1].level = 6

----------------------------------------------------------------------------
(* C3 *)

\* the document with the generation time of its header blanked
WithoutTime(doc) ==
    [i \in DOMAIN doc |->
        IF doc[i].t = "header" THEN [doc[i] EXCEPT !.time = 0] ELSE doc[i]]

SecondRunFinished == prev # <<>> /\ Finished

OutputEmbedded ==
    OutputInTree /\ \E i \in DOMAIN md_file :
        md_file[i].t = "file meta" /\ Comps(md_file[i].path) = OutputRel

----------------------------------------------------------------------------
(* What the claims read from the directory tree of the document *)

\* the lines of the tree written so far
TreeLines == IF Len(md_file) >= 2 /\ md_file[2].t = "tree" THEN md_file[2].lines ELSE <<>>

\* how deep a line is indented: 0 for the entries of the walk root
Indent(lines, i) == Len(lines[i].prefix)

\* the directory line a line hangs under (0 for the entries of the walk root)
ParentLine(lines, i) ==
    IF Indent(lines, i) = 0 THEN 0
    ELSE CHOOSE j \in 1..(i - 1) :
            /\ Indent(lines, j) = Indent(lines, i) - 1
            /\ \A k \in (j + 1)..(i - 1) : Indent(lines, k) >= Indent(lines, i)

\* the names from the walk root down to the entry a line draws
RECURSIVE LinePath(_, _)
LinePath(lines, i) ==
    IF Indent(lines, i) = 0 THEN <<lines[i].name>>
    ELSE Append(LinePath(lines, ParentLine(lines, i)), lines[i].name)

\* no later line of the same directory follows line i
LastOfItsDirectory(lines, i) ==
    ~\E j \in (i + 1)..Len(lines) :
        /\ Indent(lines, j) = Indent(lines, i)
        /\ \A k \in (i + 1)..(j - 1) : Indent(lines, k) > Indent(lines, i)

\* the path os.walk and the tree give the directory rel of the snapshot
PathOf(rel) ==
    IF rel = <<>> THEN argv.input_dir ELSE PathJoin(argv.input_dir, Join(rel, <<"/">>))

\* whether the entry rel of the snapshot is ignored: some pattern matches its joined
\* path, its path relative to the walk root, or one segment of its path
Ignored(rel) == _should_ignore(PathOf(rel), Join(rel, <<"/">>), all_ignore_patterns)

\* the directories the run reaches: the walk root, and every directory that is not
\* ignored in a directory the run reaches
Reached ==
    {d \in DOMAIN fs :
        /\ fs[d].kind = "dir"
        /\ \A n \in 1..Len(d) : ~Ignored(SubSeq(d, 1, n))}

\* the names of the entries of the directory d that are not ignored, ascending
Surviving(d) == Ascending({n \in ChildNames(d) : ~Ignored(Append(d, n))})

SurvivingFiles(d) ==
    Ascending({n \in ChildNames(d) : fs[Append(d, n)].kind = "file" /\ ~Ignored(Append(d, n))})

\* the items of seq that are in keep, in the order of seq
RECURSIVE Only(_, _)
Only(seq, keep) ==
    IF seq = <<>> THEN <<>>
    ELSE (IF Head(seq) \in keep THEN <<Head(seq)>> ELSE <<>>) \o Only(Tail(seq), keep)

\* the names the tree draws in the directory d, top to bottom
DrawnIn(d) ==
    LET lines == TreeLines
        at == {i \in DOMAIN lines : ~lines[i].err /\ LinePath(lines, i) = Append(d, lines[i].name)
                                    /\ Len(LinePath(lines, i)) = Len(d) + 1}
        idx == Only([i \in DOMAIN lines |-> i], at)
    IN [k \in DOMAIN idx |-> lines[idx[k]].name]

\* the names of the files of the directory d that have a section, first to last
SectionsIn(d) ==
    LET at == {i \in FileSections :
                    /\ Len(Comps(md_file[i].path)) = Len(d) + 1
                    /\ SubSeq(Comps(md_file[i].path), 1, Len(d)) = d}
        idx == Only([i \in DOMAIN md_file |-> i], at)
    IN [k \in DOMAIN idx |-> md_file[idx[k] - 1].name]

----------------------------------------------------------------------------
(* C2 *)

\* C2. Ignore filter: for every directory the run reaches, the walk root included,
\* the tree draws exactly its entries that are not ignored, in ascending order, and
\* the sections of its files are exactly its files that are not ignored, in
\* ascending order: no file that is not ignored is left out.
C2_ExactlyTheSurvivors ==
    Finished =>
        \A d \in Reached :
            /\ DrawnIn(d) = Surviving(d)
            /\ SectionsIn(d) = SurvivingFiles(d)

----------------------------------------------------------------------------
(* C6 *)

\* C6. Output self-exclusion: when the output file lies inside the walked tree, no
\* line of the tree and no file section is the output file's, in the first run and
\* in a second run with the same arguments.
C6_OutputNeverEmbedded ==
    OutputInTree =>
        /\ \A i \in DOMAIN TreeLines : LinePath(TreeLines, i) # OutputRel
        /\ \A i \in FileSections : Comps(md_file[i].path) # OutputRel

----------------------------------------------------------------------------
(* C9 *)

\* C9. Breadcrumb: the heading of a directory holds the names of the directories
\* from the walk root (excluded) down to it, joined by " / ", as many names as the
\* directory is deep, in every order of visit and after every return from a subtree.
C9_BreadcrumbIsThePath ==
    \A i \in DirHeadings :
        md_file[i].text = Join(Comps(md_file[i].of), <<" ", "/", " ">>)

----------------------------------------------------------------------------
(* C10 *)

\* C10. Tree connectors: in each directory the last child drawn has the corner
\* connector and every other child the branch connector; the lines under a
\* directory drawn last are indented with blank padding at its level, those under
\* any other directory with the continuation marker.
C10_ConnectorsOfTheSurvivors ==
    LET lines == TreeLines IN
    \A i \in DOMAIN lines :
        /\ lines[i].conn = (IF LastOfItsDirectory(lines, i) THEN Corner ELSE Branch)
        /\ Indent(lines, i) > 0 =>
              lines[i].prefix[Indent(lines, i)] =
                  (IF LastOfItsDirectory(lines, ParentLine(lines, i))
                   THEN Padding ELSE Continuation)

----------------------------------------------------------------------------
(* C4 *)

\* the content of the file section i: the item after its path and size lines
ContentOf(i) == md_file[i + 1]

\* the bytes of the file the section i is about
BytesOf(i) == fs[Comps(md_file[i].path)].bytes

\* C4. Encoding fallback: the content of a file is what the first of UTF-8, UTF-8
\* with BOM, Latin-1, Windows-1252, GBK, GB2312 that decodes it gives; and a file
\* holding a text T saved in any one of the six is read back as T.
C4_SameTextBack ==
    \A i \in FileSections :
        /\ \E k \in DOMAIN encodings :
            /\ Decode(encodings[k], BytesOf(i)).ok
            /\ \A j \in 1..(k - 1) : ~Decode(encodings[j], BytesOf(i)).ok
            /\ ContentOf(i).t = "fence"
            /\ ContentOf(i).body = UniversalNewlines(Decode(encodings[k], BytesOf(i)).text)
        /\ \A e \in Range(encodings), T \in Texts :
            (Encode(e, T).ok /\ Encode(e, T).bytes = BytesOf(i)) =>
                ContentOf(i).t = "fence" /\ ContentOf(i).body = T

----------------------------------------------------------------------------
(* C5 *)

\* the entries the run comes across: every directory above them can be listed and
\* is not ignored
CameAcross ==
    {d \in DOMAIN fs \ {<<>>} :
        \A n \in 0..(Len(d) - 1) :
            /\ fs[SubSeq(d, 1, n)].kind = "dir"
            /\ fs[SubSeq(d, 1, n)].readable
            /\ (n > 0 => ~Ignored(SubSeq(d, 1, n)))}

\* the file goes to the delegate
Delegated(d) ==
    obj.markitdown_available /\ _should_convert_to_markdown(Lower(SplitExt(d[Len(d)])))

\* a directory that cannot be listed, a file that cannot be read, a file the
\* delegate fails on or returns nothing for
FailedEntries ==
    {d \in CameAcross :
        /\ ~Ignored(d)
        /\ IF fs[d].kind = "dir" THEN ~fs[d].readable
           ELSE IF Delegated(d) THEN fs[d].conv.raises \/ fs[d].conv.text = <<>>
           ELSE ~fs[d].readable}

\* the document notes the failure of the entry d: under a directory's line in the
\* tree, or in place of the content in a file's section
NotedInDocument(d) ==
    IF fs[d].kind = "dir"
    THEN \E i \in DOMAIN TreeLines :
            TreeLines[i].err /\ LinePath(TreeLines, i) = Append(d, <<>>)
    ELSE \E i \in FileSections :
            Comps(md_file[i].path) = d /\ ContentOf(i).t = "note"

\* C5. Error propagation: False is returned only when the directory does not exist,
\* and then the output is never opened or written, or when the output cannot be
\* opened or written; every failure of an entry leaves the run to end with the
\* statistics and True, is noted in the document, and is counted in a failure or
\* ignored counter.
C5_FailuresNotedAndTallied ==
    /\ (pc = "done" /\ result = "false") =>
            \/ ~Exists(<<>>) /\ ~opened /\ md_file = <<>>
            \/ ~opened /\ ~CanOpenOutput
            \/ opened /\ \A i \in DOMAIN md_file : md_file[i].t # "statistics"
    /\ Finished =>
            /\ md_file[Len(md_file)].t = "statistics"
            /\ \A d \in FailedEntries : NotedInDocument(d)
            /\ stats.failed_files + stats.ignored_paths >= Cardinality(FailedEntries)

----------------------------------------------------------------------------
(* C7 *)

\* the sections of the files whose extension the delegate takes
EligibleSections ==
    {i \in FileSections : _should_convert_to_markdown(Lower(SplitExt(md_file[i - 1].name)))}

\* C7. Without the delegate, disabled or not loaded, every file with an extension
\* the delegate takes has no fenced block but a note, which is not the note of a
\* plain file that cannot be displayed, and is counted in failed_files.
C7_EligibleFilesNotedAsUnconvertible ==
    ~obj.markitdown_available =>
        /\ \A i \in EligibleSections :
            /\ ContentOf(i).t = "note"
            /\ ContentOf(i).kind # "binary, cannot be displayed"
        /\ stats.failed_files >= Cardinality(EligibleSections)

----------------------------------------------------------------------------
(* C11 *)

\* the sections whose content is what the delegate made of the file: the note of a
\* conversion and the fenced block after it
ConvertedSections ==
    {i \in FileSections :
        /\ ContentOf(i).t = "note"
        /\ ContentOf(i).kind = "converted by markitdown"
        /\ md_file[i + 2].t = "fence"}

\* C11. Statistics partition: every file with a section is counted once in
\* total_files and in exactly one of text_files, converted_files, failed_files, so
\* total_files = text_files + converted_files + failed_files; converted_files
\* counts only the files whose conversion by the delegate put content in the document.
C11_StatisticsPartition ==
    /\ stats.total_files = Cardinality(FileSections)
    /\ stats.total_files = stats.text_files + stats.converted_files + stats.failed_files
    /\ stats.converted_files = Cardinality(ConvertedSections)

====
